---------------------------- MODULE Spec2Model ----------------------------
(***************************************************************************)
(* A model of src/main.py (CryptoVolatility): the CSV loader, the metrics  *)
(* engine, the correlation step and the menu loop that owns the dictionary *)
(* of loaded coins.                                                        *)
(*                                                                         *)
(* Numbers.  A float64 is modelled exactly as a pair <<n, d>>, d >= 0:     *)
(*   d > 0          the rational n/d in lowest terms,                      *)
(*   <<1, 0>>       +inf,   <<-1, 0>>  -inf,   <<0, 0>>  NaN.              *)
(* The arithmetic follows IEEE-754 for the special values (x/0, inf-inf,   *)
(* 0*inf, NaN propagation); rounding is not modelled, and neither is the   *)
(* negative zero (no divisor of the program can be one).                   *)
(* A value that is a square root (a standard deviation, a correlation) is  *)
(* kept exactly as a pair [coef, rad] standing for coef * sqrt(rad).       *)
(***************************************************************************)
EXTENDS Integers, Sequences, FiniteSets, TLC

VARIABLES
    coins,  \* main_menu's dict: a sequence of [name, df] in insertion order
    pc,     \* where the program is: "menu" | "load" | "exited" | "crashed";
            \* "call" | "done" in a run of a single function
    out,    \* the lines the last command printed
    view,   \* what the last command computed or displayed
    arg     \* the inputs read for the command under way; the argument of
            \* the function in a run of a single function

vars == <<coins, pc, out, view, arg>>

----------------------------------------------------------------------------
(* Bounds of the model *)

MaxRows == 2

MaxLen == 4

MaxCalendar == 3

MaxCoins == 3

----------------------------------------------------------------------------
(* float64 *)

Abs(n) == IF n < 0 THEN -n ELSE n

Sign(n) == IF n < 0 THEN -1 ELSE IF n > 0 THEN 1 ELSE 0

RECURSIVE Gcd(_, _)
Gcd(a, b) == IF b = 0 THEN a ELSE Gcd(b, a % b)

Norm(n, d) ==
    IF d = 0 THEN <<Sign(n), 0>>
    ELSE LET g == Gcd(Abs(n), Abs(d))
         IN  <<(Sign(d) * n) \div g, Abs(d) \div g>>

NaN == <<0, 0>>

Inf == <<1, 0>>

Zero == <<0, 1>>

One == <<1, 1>>

Num(n) == <<n, 1>>

IsNaN(x) == x = NaN

IsFinite(x) == x[2] > 0

FNeg(x) == <<-x[1], x[2]>>

FAdd(a, b) ==
    IF a[2] = 0 /\ b[2] = 0 THEN (IF a = b THEN a ELSE NaN)
    ELSE IF a[2] = 0 THEN a
    ELSE IF b[2] = 0 THEN b
    ELSE LET g == Gcd(a[2], b[2])
             l == (a[2] \div g) * b[2]
         IN  Norm(a[1] * (l \div a[2]) + b[1] * (l \div b[2]), l)

FSub(a, b) == FAdd(a, FNeg(b))

FMul(a, b) ==
    IF a[2] = 0 \/ b[2] = 0 THEN Norm(a[1] * b[1], 0)
    ELSE LET g1 == Gcd(Abs(a[1]), b[2])
             g2 == Gcd(Abs(b[1]), a[2])
             h1 == IF g1 = 0 THEN 1 ELSE g1
             h2 == IF g2 = 0 THEN 1 ELSE g2
         IN  Norm((a[1] \div h1) * (b[1] \div h2), (a[2] \div h2) * (b[2] \div h1))

\* 1/x; 1/0 is +inf (the program has no negative zero), 1/inf is 0
Recip(x) == IF x = Zero THEN Inf ELSE Norm(Sign(x[1]) * x[2], Abs(x[1]))

FDiv(a, b) == FMul(a, Recip(b))

FLt(a, b) ==
    IF IsNaN(a) \/ IsNaN(b) THEN FALSE
    ELSE IF a[2] = 0 /\ b[2] = 0 THEN a[1] < b[1]
    ELSE a[1] * b[2] < b[1] * a[2]

FLe(a, b) == (a = b /\ ~IsNaN(a)) \/ FLt(a, b)

----------------------------------------------------------------------------
(* Sequences *)

Range(s) == {s[i] : i \in 1..Len(s)}

SeqsUpTo(S, n) == UNION {[1..k -> S] : k \in 0..n}

RECURSIVE SelectIdx(_, _, _)
\* the subsequence of s at the positions i..Len(s) for which keep[i] holds
SelectIdx(s, keep, i) ==
    IF i > Len(s) THEN <<>>
    ELSE (IF keep[i] THEN <<s[i]>> ELSE <<>>) \o SelectIdx(s, keep, i + 1)

\* Index.is_monotonic_increasing of the Date column of rows
IsMonotonic(rows) == \A i \in 1..(Len(rows) - 1) : rows[i].Date <= rows[i + 1].Date

----------------------------------------------------------------------------
(* The files a path can name.  A file is a table: its header as written   *)
(* and its rows, each a date (a day number) and the text of the price     *)
(* cell.                                                                  *)

Dates == {1, 2}

\* The price cells a file may hold: unparseable, negative, zero, positive,
\* with a currency symbol
Cells == {"n/a", "-1", "0", "1", "$2"}

\* The price cells of the files of a menu session
SessionCells == {"n/a", "$2"}

NoFile == [header |-> <<>>, rows |-> <<>>, exists |-> FALSE]

Rows(cells) == [Date : Dates, Close : cells]

Table(h, r) == [header |-> h, rows |-> r, exists |-> TRUE]

\* Headers beside the canonical one: another spelling of the price column,
\* no price column, no column spelled "Date".  Their tables are drawn with
\* at most one row: with a failing header the rows are never read.
OtherHeaders == {<<"Date", " close/last ">>, <<"Date", "Open">>, <<"date", "Close/Last">>}

Tables(cells) ==
    {Table(<<"Date", "Close/Last">>, r) : r \in SeqsUpTo(Rows(cells), MaxRows)}
        \cup {Table(h, r) : h \in OtherHeaders, r \in SeqsUpTo(Rows(cells), 1)}

\* What the path typed in a session names: a table, or nothing
Files == Tables(SessionCells) \cup {NoFile}

----------------------------------------------------------------------------
(* load_data_from_csv *)

\* c.strip().title() on the header names that occur
Title(c) ==
    CASE c = " close/last " -> "Close/Last"
      [] c = "date" -> "Date"
      [] OTHER -> c

\* lines 20-21 and 25: strip '$' and ',' from a textual cell, then
\* pd.to_numeric(errors='coerce')
ToNumeric(cell) ==
    CASE cell = "0" -> Num(0)
      [] cell = "1" -> Num(1)
      [] cell = "2" -> Num(2)
      [] cell = "$2" -> Num(2)
      [] cell = "-1" -> Num(-1)
      [] OTHER -> NaN

Permute(s, p) == [i \in 1..Len(s) |-> s[p[i]]]

Bijections(n) == {p \in [1..n -> 1..n] : \A i, j \in 1..n : p[i] = p[j] => i = j}

\* df.sort_index(): a frame whose index is already monotonic is returned as
\* it is; otherwise the rows are ordered by date with the default, unstable
\* sort, which may leave rows of one date in any order.
SortIndex(rows) ==
    IF IsMonotonic(rows) THEN {rows}
    ELSE {Permute(rows, p) : p \in {q \in Bijections(Len(rows)) :
                                        IsMonotonic(Permute(rows, q))}}

\* df.dropna(subset=['Price'])
DropNa(rows) ==
    SelectIdx(rows, [i \in 1..Len(rows) |-> ~IsNaN(rows[i].Price)], 1)

None == [isNone |-> TRUE, Date |-> <<>>, Price |-> <<>>]

Frame(rows) ==
    [isNone |-> FALSE,
     Date   |-> [i \in 1..Len(rows) |-> rows[i].Date],
     Price  |-> [i \in 1..Len(rows) |-> rows[i].Price]]

\* The frames load_data_from_csv(file_path) can return for an existing
\* file: None when read_csv raises (no column spelled 'Date' to parse) or
\* the price column is missing; the exception is printed and swallowed.
load_data_from_csv(file) ==
    IF "Date" \notin Range(file.header) THEN {None}
    ELSE IF "Close/Last" \notin {Title(c) : c \in Range(file.header)} THEN {None}
    ELSE {Frame(DropNa([i \in 1..Len(s) |->
                          [Date |-> s[i].Date, Price |-> ToNumeric(s[i].Close)]]))
            : s \in SortIndex(file.rows)}

empty(df) == Len(df.Date) = 0

----------------------------------------------------------------------------
(* Series reductions of pandas, all with skipna=True *)

NotNa(xs) == SelectIdx(xs, [i \in 1..Len(xs) |-> ~IsNaN(xs[i])], 1)

RECURSIVE FSum(_)
FSum(xs) == IF xs = <<>> THEN Zero ELSE FAdd(xs[1], FSum(Tail(xs)))

RECURSIVE FMinOf(_)
FMinOf(xs) ==
    IF Len(xs) = 1 THEN xs[1]
    ELSE LET m == FMinOf(Tail(xs)) IN IF FLt(m, xs[1]) THEN m ELSE xs[1]

\* Series.min(): the least defined value, NaN when there is none
min(xs) == IF NotNa(xs) = <<>> THEN NaN ELSE FMinOf(NotNa(xs))

\* Series.mean(): NaN (0/0) when no value is defined
mean(xs) == FDiv(FSum(NotNa(xs)), Num(Len(NotNa(xs))))

\* Series.var(ddof=1), as nanops.nanvar computes it: NaN unless at least two
\* values are defined, else the squared deviations from the mean over
\* count - 1
var(xs) ==
    LET v   == NotNa(xs)
        avg == mean(xs)
        sqr == [i \in 1..Len(v) |-> FMul(FSub(avg, v[i]), FSub(avg, v[i]))]
    IN  IF Len(v) <= 1 THEN NaN ELSE FDiv(FSum(sqr), Num(Len(v) - 1))

\* cummax taken as the maximum of the whole series at every row
cummax_of_whole_series(xs) ==
    [i \in 1..Len(xs) |->
        CHOOSE m \in Range(xs) : \A j \in 1..Len(xs) : FLe(xs[j], m)]

\* Series.cummax() of a series without NaN
cummax(xs) ==
    [i \in 1..Len(xs) |->
        CHOOSE m \in {xs[j] : j \in 1..i} : \A j \in 1..i : FLe(xs[j], m)]

\* Series.pct_change(): no value for the first row, then x[i] / x[i-1] - 1
pct_change(xs) ==
    [i \in 1..Len(xs) |-> IF i = 1 THEN NaN ELSE FSub(FDiv(xs[i], xs[i - 1]), One)]

----------------------------------------------------------------------------
(* Square roots, kept exact: [coef, rad] stands for coef * sqrt(rad) *)

Surd(c, r) == IF IsFinite(c) /\ c # Zero /\ r # Zero
              THEN [coef |-> c, rad |-> r]
              ELSE [coef |-> (IF r = Zero /\ IsFinite(c) THEN Zero ELSE c), rad |-> One]

SurdOf(x) == Surd(x, One)

\* np.sqrt of a variance (never negative): sqrt(NaN) = NaN, sqrt(0) = 0
sqrt(v) == IF IsFinite(v) THEN Surd(One, v) ELSE Surd(v, One)

SurdMul(a, b) == Surd(FMul(a.coef, b.coef), FMul(a.rad, b.rad))

\* x / (c * sqrt(r)) = (x / (c * r)) * sqrt(r)
DivBySurd(x, s) == Surd(FDiv(x, FMul(s.coef, s.rad)), s.rad)

SurdIsNaN(s) == IsNaN(s.coef)

SurdIsZero(s) == s.coef = Zero

\* Series.std(): the square root of var
std(xs) == sqrt(var(xs))

----------------------------------------------------------------------------
(* calculate_metrics *)

DaysPerYear == 365

\* the default risk_free_rate=0.04
risk_free_rate == <<1, 25>>

ZeroMetrics ==
    [TotalReturn |-> Zero, Volatility |-> SurdOf(Zero),
     SharpeRatio |-> SurdOf(Zero), MaxDrawdown |-> Zero]

\* line 42 with the undefined first return filled with 0
write_returns_filled(df) ==
    [Date |-> df.Date, Price |-> df.Price,
     Returns |-> [i \in 1..Len(df.Price) |->
                     IF i = 1 THEN Zero ELSE pct_change(df.Price)[i]]]

\* line 42: the Returns column is (re)written on the caller's frame
WriteReturns(df) ==
    [Date |-> df.Date, Price |-> df.Price, Returns |-> pct_change(df.Price)]

\* The value calculate_metrics(df) returns, and the frame as it leaves it.
calculate_metrics(df) ==
    IF empty(df) THEN [metrics |-> ZeroMetrics, df |-> df]
    ELSE
    LET df2               == WriteReturns(df)
        Price             == df2.Price
        total_return      == FSub(FDiv(Price[Len(Price)], Price[1]), One)
        ann_volatility    == SurdMul(std(df2.Returns), sqrt(Num(DaysPerYear)))
        daily_rf          == FDiv(risk_free_rate, Num(DaysPerYear))
        mean_daily_return == mean(df2.Returns)
        daily_std         == std(df2.Returns)
        sharpe_ratio      ==
            IF SurdIsZero(daily_std) \/ SurdIsNaN(daily_std) THEN SurdOf(Zero)
            ELSE SurdMul(DivBySurd(FSub(mean_daily_return, daily_rf), daily_std),
                         sqrt(Num(DaysPerYear)))
        rolling_max       == cummax(Price)
        drawdown          == [i \in 1..Len(Price) |->
                                 FSub(FDiv(Price[i], rolling_max[i]), One)]
        max_drawdown      == min(drawdown)
    IN  [metrics |-> [TotalReturn |-> total_return, Volatility |-> ann_volatility,
                      SharpeRatio |-> sharpe_ratio, MaxDrawdown |-> max_drawdown],
         df |-> df2]

----------------------------------------------------------------------------
(* The coins dictionary: an insertion-ordered mapping, name -> frame *)

Keys(d) == [i \in 1..Len(d) |-> d[i].name]

Has(d, k) == \E i \in 1..Len(d) : d[i].name = k

Get(d, k) == d[CHOOSE i \in 1..Len(d) : d[i].name = k].df

\* d[k] = df: an existing key keeps its place, a new key goes last
SetItem(d, k, df) ==
    IF Has(d, k)
    THEN [i \in 1..Len(d) |-> IF d[i].name = k THEN [name |-> k, df |-> df] ELSE d[i]]
    ELSE Append(d, [name |-> k, df |-> df])

----------------------------------------------------------------------------
(* plot_correlation *)

IsUnique(s) == \A i, j \in 1..Len(s) : s[i] = s[j] => i = j

\* The first position of date t in a frame's index, 0 when absent
Locate(df, t) ==
    IF \E i \in 1..Len(df.Date) : df.Date[i] = t
    THEN CHOOSE i \in 1..Len(df.Date) :
             df.Date[i] = t /\ \A j \in 1..(i - 1) : df.Date[j] # t
    ELSE 0

\* combined_returns[name] = df['Returns'] on a frame whose index is `index`:
\* the values as they are when the two indexes are equal, else the series
\* reindexed on the frame's index (NaN where the series has no such date).
\* Reindexing a series with a duplicated index raises ValueError.
Raises(df, index) == df.Date # index /\ ~IsUnique(df.Date)

Reindexed(df, index) ==
    IF df.Date = index THEN df.Returns
    ELSE [i \in 1..Len(index) |->
             IF Locate(df, index[i]) = 0 THEN NaN ELSE df.Returns[Locate(df, index[i])]]

NonEmpty(d) == SelectIdx(d, [i \in 1..Len(d) |-> ~empty(d[i].df)], 1)

\* The index combined_returns gets: that of the first column assigned to
\* the empty frame
CombinedIndex(d) == IF NonEmpty(d) = <<>> THEN <<>> ELSE NonEmpty(d)[1].df.Date

\* The loop of lines 101-103; only reached with Len(d) >= 2
CombinedRaises(d) ==
    \E i \in 2..Len(NonEmpty(d)) : Raises(NonEmpty(d)[i].df, CombinedIndex(d))

combined_returns(d) ==
    [index |-> CombinedIndex(d),
     cols  |-> [i \in 1..Len(NonEmpty(d)) |->
                   [name |-> NonEmpty(d)[i].name,
                    vals |-> Reindexed(NonEmpty(d)[i].df, CombinedIndex(d))]]]

\* DataFrame.corr() for two columns (pearson, min_periods=1), as
\* algos.nancorr computes it: over the rows where both values are finite;
\* NaN when there is no such row or sqrt(ssqdmx * ssqdmy) is 0.
Both(x, y) == [i \in 1..Len(x) |-> IsFinite(x[i]) /\ IsFinite(y[i])]

Pearson(x, y) ==
    LET vx      == SelectIdx(x, Both(x, y), 1)
        vy      == SelectIdx(y, Both(x, y), 1)
        nobs    == Len(vx)
        meanx   == FDiv(FSum(vx), Num(nobs))
        meany   == FDiv(FSum(vy), Num(nobs))
        ssqdmx  == FSum([i \in 1..nobs |-> FMul(FSub(vx[i], meanx), FSub(vx[i], meanx))])
        ssqdmy  == FSum([i \in 1..nobs |-> FMul(FSub(vy[i], meany), FSub(vy[i], meany))])
        covxy   == FSum([i \in 1..nobs |-> FMul(FSub(vx[i], meanx), FSub(vy[i], meany))])
        divisor == sqrt(FMul(ssqdmx, ssqdmy))
    IN  IF nobs < 1 THEN SurdOf(NaN)
        ELSE IF ~SurdIsZero(divisor) THEN DivBySurd(covxy, divisor)
        ELSE SurdOf(NaN)

\* The timestamps of the rows nancorr reads for a pair of columns
Observed(index, x, y) == {index[i] : i \in {j \in 1..Len(index) : Both(x, y)[j]}}

\* The matrix is filled for yi <= xi and mirrored
corr(cr) ==
    LET n == Len(cr.cols)
    IN  [i \in 1..n |-> [j \in 1..n |->
            IF j <= i THEN Pearson(cr.cols[i].vals, cr.cols[j].vals)
            ELSE Pearson(cr.cols[j].vals, cr.cols[i].vals)]]

Heatmap(cr) ==
    [kind  |-> "heatmap",
     names |-> [i \in 1..Len(cr.cols) |-> cr.cols[i].name],
     corr  |-> corr(cr),
     obs   |-> [i \in 1..Len(cr.cols) |-> [j \in 1..Len(cr.cols) |->
                   Observed(cr.index, cr.cols[i].vals, cr.cols[j].vals)]]]

Nothing == [kind |-> "none"]

\* What plot_correlation(coins_dict) prints and shows, and whether it raises
plot_correlation(d) ==
    IF Len(d) < 2
    THEN [raised |-> FALSE, view |-> Nothing,
          out |-> <<"[Info] Need at least 2 coins for correlation analysis.">>]
    ELSE IF CombinedRaises(d)
    THEN [raised |-> TRUE, view |-> Nothing,
          out |-> <<"ValueError: cannot reindex on an axis with duplicate labels">>]
    ELSE IF combined_returns(d).cols = <<>> \/ combined_returns(d).index = <<>>
    THEN [raised |-> FALSE, view |-> Nothing,
          out |-> <<"[Info] No valid data for correlation.">>]
    ELSE [raised |-> FALSE, view |-> Heatmap(combined_returns(d)), out |-> <<>>]

----------------------------------------------------------------------------
(* plot_performance *)

plot_performance(d) ==
    [kind   |-> "charts",
     series |-> [i \in 1..Len(NonEmpty(d)) |->
        LET df == NonEmpty(d)[i].df
        IN  [name       |-> NonEmpty(d)[i].name,
             norm_price |-> [k \in 1..Len(df.Price) |-> FDiv(df.Price[k], df.Price[1])],
             drawdown   |-> [k \in 1..Len(df.Price) |->
                                FSub(FDiv(df.Price[k], cummax(df.Price)[k]), One)]]]]

----------------------------------------------------------------------------
(* main_menu *)

\* What the user may type as a coin symbol
Tickers == {"btc", "BTC", " eth "}

\* the symbol stripped but not upper-cased
strip_only(t) ==
    CASE t = " eth " -> "eth"
      [] OTHER -> t

\* input(...).upper().strip() on those
upper_strip(t) ==
    CASE t = "btc" -> "BTC"
      [] t = " eth " -> "ETH"
      [] OTHER -> t

\* line 139 without its test for an empty frame
accepted_if_not_none(df) == ~df.isNone

\* line 139: the loaded frame is kept
Accepted(df) == ~df.isNone /\ ~empty(df)

\* lines 140-141: the frame stored under the ticker, with its Returns column
Stored(df) ==
    [Date |-> df.Date, Price |-> df.Price, Returns |-> pct_change(df.Price)]

\* choice '1', lines 133-135: the two inputs are read, the symbol is
\* upper-cased and stripped, the path names `file`
InputLoad(t, file) ==
    /\ pc = "menu"
    /\ pc' = "load"
    /\ arg' = [input |-> t, ticker |-> upper_strip(t), file |-> file]
    /\ out' = <<>>
    /\ view' = Nothing
    /\ UNCHANGED coins

\* choice '1', lines 137-146: the file is loaded and, when it holds a valid
\* row, stored under the ticker
LoadNewCoin ==
    /\ pc = "load"
    /\ IF ~arg.file.exists
       THEN /\ out' = <<"[Error] File not found.">>
            /\ view' = Nothing
            /\ coins' = coins
       ELSE \E df \in load_data_from_csv(arg.file) :
               IF Accepted(df)
               THEN /\ coins' = SetItem(coins, arg.ticker, Stored(df))
                    /\ out' = <<"[Success] loaded">>
                    /\ view' = [kind |-> "loaded", ticker |-> arg.ticker,
                                rows |-> Len(df.Date)]
               ELSE /\ coins' = coins
                    /\ out' = (IF df.isNone THEN <<"[Error] Failed to load File">> ELSE <<>>)
                                \o <<"[Error] File loaded but contained no valid price data.">>
                    /\ view' = Nothing
    /\ pc' = "menu"
    /\ arg' = Nothing

\* choice '2': calculate_metrics on every frame of the dictionary, in place
ViewReport ==
    /\ pc = "menu"
    /\ UNCHANGED <<pc, arg>>
    /\ IF coins = <<>>
       THEN /\ out' = <<"[!] Please load data first.">>
            /\ view' = Nothing
            /\ coins' = coins
       ELSE /\ out' = <<"report">>
            /\ view' = [kind |-> "report",
                        rows |-> [i \in 1..Len(coins) |->
                                    [name |-> coins[i].name,
                                     m    |-> calculate_metrics(coins[i].df).metrics]]]
            /\ coins' = [i \in 1..Len(coins) |->
                            [name |-> coins[i].name,
                             df   |-> calculate_metrics(coins[i].df).df]]

\* choice '3'
PlotPerformance ==
    /\ pc = "menu"
    /\ UNCHANGED <<coins, pc, arg>>
    /\ IF coins # <<>>
       THEN out' = <<>> /\ view' = plot_performance(coins)
       ELSE out' = <<"[!] No data loaded.">> /\ view' = Nothing

\* choice '4'; an exception plot_correlation raises is caught nowhere and
\* ends the program
PlotCorrelation ==
    /\ pc = "menu"
    /\ UNCHANGED <<coins, arg>>
    /\ IF coins # <<>>
       THEN /\ out' = plot_correlation(coins).out
            /\ view' = plot_correlation(coins).view
            /\ pc' = IF plot_correlation(coins).raised THEN "crashed" ELSE "menu"
       ELSE out' = <<"[!] No data loaded.">> /\ view' = Nothing /\ pc' = pc

\* choice '5'
ClearAllData ==
    /\ pc = "menu"
    /\ UNCHANGED <<pc, arg>>
    /\ coins' = <<>>
    /\ out' = <<"[Info] All data cleared.">>
    /\ view' = Nothing

\* choice '6'
Exit ==
    /\ pc = "menu"
    /\ UNCHANGED <<coins, arg>>
    /\ pc' = "exited"
    /\ out' = <<"Exiting...">>
    /\ view' = Nothing

\* any other choice
InvalidOption ==
    /\ pc = "menu"
    /\ UNCHANGED <<coins, pc, arg>>
    /\ out' = <<"[!] Invalid option.">>
    /\ view' = Nothing

Init ==
    /\ coins = <<>>
    /\ pc = "menu"
    /\ out = <<>>
    /\ view = Nothing
    /\ arg = Nothing

Next ==
    \/ \E t \in Tickers, file \in Files : InputLoad(t, file)
    \/ LoadNewCoin
    \/ ViewReport
    \/ PlotPerformance
    \/ PlotCorrelation
    \/ ClearAllData
    \/ Exit
    \/ InvalidOption

Spec == Init /\ [][Next]_vars

----------------------------------------------------------------------------
(* load_data_from_csv applied to one file *)

InitLoad ==
    /\ arg \in Tables(Cells)
    /\ pc = "call"
    /\ coins = <<>>
    /\ out = <<>>
    /\ view = Nothing

CallLoad ==
    /\ pc = "call"
    /\ \E df \in load_data_from_csv(arg) :
          /\ view' = df
          /\ out' = IF df.isNone THEN <<"[Error] Failed to load File">> ELSE <<>>
    /\ pc' = "done"
    /\ UNCHANGED <<coins, arg>>

SpecLoad == InitLoad /\ [][CallLoad]_vars

----------------------------------------------------------------------------
(* calculate_metrics applied to one price series *)

MetricPrices == {0, 1, 2, 3}

Scenario == <<100, 110, 99, 121>>

\* The frame of a series of daily prices as the loader returns it
FrameOf(ps) ==
    [isNone |-> FALSE,
     Date   |-> [i \in 1..Len(ps) |-> i],
     Price  |-> [i \in 1..Len(ps) |-> Num(ps[i])]]

InitMetrics ==
    /\ arg \in {FrameOf(ps) : ps \in SeqsUpTo(MetricPrices, MaxLen) \cup {Scenario}}
    /\ pc = "call"
    /\ coins = <<>>
    /\ out = <<>>
    /\ view = Nothing

CallMetrics ==
    /\ pc = "call"
    /\ view' = calculate_metrics(arg)
    /\ pc' = "done"
    /\ UNCHANGED <<coins, out, arg>>

SpecMetrics == InitMetrics /\ [][CallMetrics]_vars

----------------------------------------------------------------------------
(* plot_correlation on a dictionary a session can have built: every frame  *)
(* non-empty, with its Returns column; here every frame is a valid price   *)
(* series (increasing dates, positive prices).                             *)

CorrNames == <<"BTC", "ETH", "SOL">>

CorrPrices == {1, 2}

Calendars == (SUBSET (1..MaxCalendar)) \ {{}}

RECURSIVE SortedSeq(_)
\* the elements of a set of days, in increasing order
SortedSeq(S) ==
    IF S = {} THEN <<>>
    ELSE LET m == CHOOSE x \in S : \A y \in S : x <= y
         IN  <<m>> \o SortedSeq(S \ {m})

SeriesOn(cal) ==
    {Stored([Date |-> SortedSeq(cal), Price |-> [i \in 1..Cardinality(cal) |-> Num(ps[i])]])
        : ps \in [1..Cardinality(cal) -> CorrPrices]}

ValidSeries == UNION {SeriesOn(cal) : cal \in Calendars}

InitCorr ==
    /\ \E n \in 2..MaxCoins : \E fs \in [1..n -> ValidSeries] :
          coins = [i \in 1..n |-> [name |-> CorrNames[i], df |-> fs[i]]]
    /\ pc = "menu"
    /\ out = <<>>
    /\ view = Nothing
    /\ arg = Nothing

SpecCorr == InitCorr /\ [][PlotCorrelation]_vars

----------------------------------------------------------------------------
(* Properties *)

\* A PriceSeries as the data model defines it: timestamps strictly
\* increasing, every price > 0
StrictlyIncreasing(ds) == \A i \in 1..(Len(ds) - 1) : ds[i] < ds[i + 1]

AllPositive(ps) == \A i \in 1..Len(ps) : ps[i][1] > 0 /\ ps[i][2] > 0

IsPriceSeries(df) == StrictlyIncreasing(df.Date) /\ AllPositive(df.Price)

HasNaN(m) ==
    \/ IsNaN(m.TotalReturn) \/ IsNaN(m.MaxDrawdown)
    \/ SurdIsNaN(m.Volatility) \/ SurdIsNaN(m.SharpeRatio)

AllZero(m) ==
    /\ m.TotalReturn = Zero /\ m.MaxDrawdown = Zero
    /\ SurdIsZero(m.Volatility) /\ SurdIsZero(m.SharpeRatio)

\* C1: for every PriceSeries with fewer than 2 points, calculate_metrics
\* returns Total Return, Volatility, Sharpe Ratio and Max Drawdown all
\* exactly 0, none of them NaN.
C1_DegenerateSeriesAllZero ==
    (pc = "done" /\ IsPriceSeries(arg) /\ Len(arg.Price) < 2)
        => (AllZero(view.metrics) /\ ~HasNaN(view.metrics))

\* C6: for every PriceSeries that yields fewer than 2 returns (at most 2
\* points) Volatility and Sharpe Ratio are 0, and no Metrics field is NaN
\* for any valid PriceSeries.
C6_FewReturnsStdIsZero ==
    (pc = "done" /\ IsPriceSeries(arg))
        => /\ ~HasNaN(view.metrics)
           /\ Len(arg.Price) - 1 < 2
                => (SurdIsZero(view.metrics.Volatility)
                      /\ SurdIsZero(view.metrics.SharpeRatio))

\* The running peak and the drawdown of the integer prices of arg, stated
\* on the integers: (p[i] - peak[i]) / peak[i]
PriceAt(i) == arg.Price[i][1]

PeakAt(i) == CHOOSE m \in {PriceAt(j) : j \in 1..i} : \A j \in 1..i : PriceAt(j) <= m

\* n/d <= (p[i] - peak[i]) / peak[i], for d > 0 and peak[i] > 0
AtMostDrawdownAt(x, i) == x[1] * PeakAt(i) <= (PriceAt(i) - PeakAt(i)) * x[2]

IsDrawdownAt(x, i) == x[1] * PeakAt(i) = (PriceAt(i) - PeakAt(i)) * x[2]

\* C7: for every series with all prices > 0, Max Drawdown is the minimum
\* over the points i of price[i] / max(price[0..i]) - 1 (0 for an empty
\* series) and lies in [-1, 0]; prices 100, 110, 99, 121 give Max Drawdown
\* -0.10 and Total Return 0.21.
C7_MaxDrawdownIsMinOfDrawdowns ==
    (pc = "done" /\ AllPositive(arg.Price)) =>
        LET md == view.metrics.MaxDrawdown
            n  == Len(arg.Price)
        IN  /\ IsFinite(md)
            /\ n = 0 => md = Zero
            /\ n > 0 => /\ \E i \in 1..n : IsDrawdownAt(md, i)
                        /\ \A i \in 1..n : AtMostDrawdownAt(md, i)
            /\ -md[2] <= md[1] /\ md[1] <= 0
            /\ arg = FrameOf(Scenario)
                 => (md = <<-1, 10>> /\ view.metrics.TotalReturn = <<21, 100>>)

\* calculate_metrics has run on the scenario series, whose drawdown is
\* reached below a peak that is not the first price
C7_Witness ==
    /\ pc = "done"
    /\ arg = FrameOf(Scenario)
    /\ view.metrics.MaxDrawdown = <<-1, 10>>

\* C3: every series load_data_from_csv returns has strictly increasing
\* timestamps (no duplicate) and only prices > 0.
C3_LoadedSeriesIsPriceSeries ==
    (pc = "done" /\ ~view.isNone) => IsPriceSeries(view)

\* A file no load can succeed on, read off the file itself: no file, no
\* 'Date' column, no close/last column under either spelling, or no row
\* with a parseable price
FailsToLoad(f) ==
    \/ ~f.exists
    \/ "Date" \notin Range(f.header)
    \/ Range(f.header) \cap {"Close/Last", " close/last "} = {}
    \/ \A i \in 1..Len(f.rows) : f.rows[i].Close = "n/a"

\* C2: a load command that fails (file not found, missing column, an
\* exception in the loader, zero valid rows) leaves the dictionary exactly
\* as it was, and the menu goes on.
C2_FailedLoadLeavesCoins ==
    [][(pc = "load" /\ FailsToLoad(arg.file)) => (coins' = coins /\ pc' = "menu")]_vars

\* a load has failed while coins were loaded
C2_Witness ==
    /\ Len(coins) = 2
    /\ pc = "menu"
    /\ out = <<"[Error] Failed to load File",
               "[Error] File loaded but contained no valid price data.">>

KeySet(d) == Range(Keys(d))

\* The entry a typed symbol denotes, letter case and blanks aside
Denotes(t) == IF t \in {"btc", "BTC"} THEN "BTC" ELSE "ETH"

\* C8: the dictionary is keyed by upper-cased labels: labels differing only
\* in case denote one entry; a successful load replaces that entry's series
\* by the newly loaded one and leaves every other entry as it was; a failed
\* load changes nothing; clear empties the dictionary; nothing else changes
\* the set of labels.
C8_KeyedByUpperCasedLabel ==
    [][/\ pc = "load" =>
               IF view'.kind = "loaded"
               THEN /\ KeySet(coins') = KeySet(coins) \cup {Denotes(arg.input)}
                    /\ IsUnique(Keys(coins'))
                    /\ \E df \in load_data_from_csv(arg.file) :
                          /\ Get(coins', Denotes(arg.input)).Date = df.Date
                          /\ Get(coins', Denotes(arg.input)).Price = df.Price
                    /\ \A k \in KeySet(coins) \ {Denotes(arg.input)} :
                          Get(coins', k) = Get(coins, k)
               ELSE coins' = coins
       /\ ClearAllData => coins' = <<>>
       /\ (pc = "menu" /\ ~ClearAllData) => KeySet(coins') = KeySet(coins)]_vars

\* a load under a label already present, typed in another case, with
\* another entry beside it
C8_Witness ==
    /\ view.kind = "loaded"
    /\ Len(coins) = 2
    /\ view.ticker = coins[1].name
    /\ view.rows = 2
    /\ Len(coins[2].df.Date) = 1

\* C10: report, performance-plot and correlation-plot leave the dictionary
\* unchanged (labels, order, prices, Returns), and a report run again shows
\* the same Metrics.
C10_ReadOnlyCommands ==
    [][/\ (ViewReport \/ PlotPerformance \/ PlotCorrelation) => coins' = coins
       /\ (ViewReport /\ view.kind = "report") => view' = view]_vars

\* a report has been computed on two loaded coins
C10_Witness ==
    /\ view.kind = "report"
    /\ Len(coins) = 2
    /\ Len(coins[1].df.Date) = 2

\* The timestamps at which a frame has a defined return
DefinedReturns(df) ==
    {df.Date[k] : k \in {i \in 1..Len(df.Date) : IsFinite(df.Returns[i])}}

\* C4: a matrix is produced only when at least 2 instruments have
\* non-empty aligned return data (some timestamp where both have a defined
\* return); otherwise there is no matrix.
C4_MatrixOnlyWithOverlappingReturns ==
    view.kind = "heatmap" =>
        \E i, j \in 1..Len(coins) :
            /\ i # j
            /\ DefinedReturns(coins[i].df) \cap DefinedReturns(coins[j].df) # {}

SurdIsOne(s) ==
    /\ IsFinite(s.coef) /\ s.coef[1] > 0
    /\ FMul(FMul(s.coef, s.coef), s.rad) = One

\* C9: a matrix produced is symmetric, its diagonal entry is exactly 1.0
\* for every instrument with at least 1 defined return (one that overlaps
\* with itself in the table the matrix is computed from), and no entry is
\* the result of a division by zero (each is finite or NaN).
C9_MatrixSymmetricUnitDiagonal ==
    view.kind = "heatmap" =>
        LET n == Len(view.names)
        IN  /\ \A i, j \in 1..n : view.corr[i][j] = view.corr[j][i]
            /\ \A i, j \in 1..n :
                  IsFinite(view.corr[i][j].coef) \/ SurdIsNaN(view.corr[i][j])
            /\ \A i \in 1..n : view.obs[i][i] # {} => SurdIsOne(view.corr[i][i])

\* C5: for every pair of instruments the timestamps that contribute to
\* their correlation are exactly those at which both have a defined return,
\* whatever the other instruments and the insertion order.
C5_PairwiseInnerJoin ==
    view.kind = "heatmap" =>
        \A i, j \in 1..Len(view.names) :
            i # j =>
                view.obs[i][j] = DefinedReturns(Get(coins, view.names[i]))
                                    \cap DefinedReturns(Get(coins, view.names[j]))

=============================================================================
